---- MODULE Spec2Model ----
(***************************************************************************)
(* State-machine model of the technician assignment engine:                *)
(*   api/views.py                  BookView.post (immediate dispatch)      *)
(*   bookings/services/optimizer.py preview_optimization/apply_optimization*)
(*                                                                         *)
(* Geography.  Every point of the model lies on one meridian, so that the  *)
(* haversine distance of two points is R * |lat1 - lat2| exactly.  A       *)
(* latitude is a grid index 0..3 (index 0 is latitude 0.0, which Python    *)
(* treats as false), and a distance is counted in steps of 5 metres: one   *)
(* grid step is one distance unit, 0.01 km is 2 units, 1e6 km is 2*10^8.   *)
(* A longitude is present exactly when the latitude is, and is not stored. *)
(***************************************************************************)
EXTENDS Integers, Sequences, FiniteSets, TLC

VARIABLES technicians, slots, bookings, runs, changes, last, inflight

vars == <<technicians, slots, bookings, runs, changes, last, inflight>>

(* ------------------------------ bounds -------------------------------- *)
MaxBookings == 4
MaxRuns == 2
MaxOpsBookings == 2
MaxOpsRuns == 1
MaxConcBookings == 2
MaxConcRuns == 1
MaxInflight == 2
MaxFixRuns == 1
MaxLiveBookings == 2
MaxLiveRuns == 1
MaxSeedCodes == 2

(* --------------------------- program constants ------------------------ *)
Tech == 1..3
NoTech == 0
NoPos == -1
NoDate == 0
Infinity == 2000000000
Sentinel == 200000000
ImprovedEps == 2

SLOT_CHOICES == <<"09_11", "11_13", "13_15", "15_17", "17_19">>
SLOT_ORDER == <<"09_11", "11_13", "13_15", "15_17", "17_19">>

SeqRange(s) == {s[i] : i \in 1..Len(s)}

Abs(x) == IF x < 0 THEN 0 - x ELSE x

(* Python truthiness of an optional float: None and 0.0 are false. *)
Truthy(lat) == lat # NoPos /\ lat # 0

(* haversine_distance on the model's meridian, in 5 m units. *)
haversine_distance(lat1, lat2) == Abs(lat2 - lat1)

(* django.utils.dateparse.parse_date: a date value, or nothing for text    *)
(* that is not a date (None) or not a calendar date (ValueError).          *)
parse_date(s) ==
  CASE s = "2025-01-15" -> 15
    [] s = "2025-01-16" -> 16
    [] OTHER -> NoDate

Dates == {15, 16}

(* str(pincode).strip() *)
StripPincode(p) ==
  CASE p = " 110001 " -> "110001"
    [] OTHER -> p

(* The postal code table (bookings/utils/pincode_coords.py). *)
PINCODE_COORDS ==
  [p \in {"110001", "110002", "110003"} |->
     CASE p = "110001" -> 1 [] p = "110002" -> 2 [] OTHER -> 3]

get_coords_from_pincode(pincode) ==
  IF pincode = "" THEN NoPos
  ELSE IF StripPincode(pincode) \in DOMAIN PINCODE_COORDS
       THEN PINCODE_COORDS[StripPincode(pincode)]
       ELSE NoPos

(* ------------------------------ the rows ------------------------------ *)
(* Technician rows; name and city are not unique.                          *)
TechRow(name, city, lat) ==
  [name |-> name, city |-> city, current_lat |-> lat, is_active |-> TRUE]

(* The technician tables a run starts from: one of technicians that have   *)
(* not been anywhere yet, one of technicians with a start position.        *)
TechConfigs ==
  { <<TechRow("A", "Delhi", NoPos), TechRow("B", "Delhi", NoPos),
      TechRow("A", "Mumbai", NoPos)>>,
    <<TechRow("A", "Delhi", 0), TechRow("A", "Delhi", 1),
      TechRow("B", "Mumbai", NoPos)>> }

Cities == {"Delhi", "Mumbai"}

SlotKey == Tech \X Dates \X SeqRange(SLOT_CHOICES)

(* The database as one value, for the operators that read or write it. *)
DB == [technicians |-> technicians, slots |-> slots, bookings |-> bookings,
       runs |-> runs, changes |-> changes]

TxOutcomeKeepsWrites(pre, working, committed) == working

(* A transaction.atomic() block: its writes are kept when it commits and   *)
(* are all undone when an exception leaves the block.                      *)
TxOutcome(pre, working, committed) == IF committed THEN working ELSE pre

(* Ascending sequence of a finite set of integers: the retrieval order of  *)
(* an unordered query, rows come back in primary-key order.                *)
RECURSIVE SortedSeq(_)
SortedSeq(S) ==
  IF S = {} THEN <<>>
  ELSE LET m == CHOOSE x \in S : \A y \in S : x <= y
       IN  <<m>> \o SortedSeq(S \ {m})

(* ----------------------- AvailableSlotsView.get ----------------------- *)
(* get_slot_display(): the label of a slot code. *)
SlotLabel(code) ==
  CASE code = "09_11" -> "09:00-11:00"
    [] code = "11_13" -> "11:00-13:00"
    [] code = "13_15" -> "13:00-15:00"
    [] code = "15_17" -> "15:00-17:00"
    [] OTHER -> "17:00-19:00"

(* AvailabilitySlot.objects.filter(technician__city, date,                 *)
(* is_booked=False): the slot codes of the rows in retrieval order, the    *)
(* rows of a technician together and technicians in primary-key order.     *)
unbooked_slot_codes(db, city, date) ==
  LET of_tech(t) ==
        SelectSeq(SLOT_CHOICES, LAMBDA c :
           /\ <<t, date, c>> \in DOMAIN db.slots
           /\ db.technicians[t].city = city
           /\ ~db.slots[<<t, date, c>>])
      techs == SortedSeq(Tech)
      RECURSIVE Rows(_)
      Rows(i) == IF i > Len(techs) THEN <<>> ELSE of_tech(techs[i]) \o Rows(i + 1)
  IN  Rows(1)

(* slot_dict: the keys in the order of their first insertion. *)
RECURSIVE slot_dict_keys(_)
slot_dict_keys(codes) ==
  IF codes = <<>> THEN <<>>
  ELSE LET init == slot_dict_keys(SubSeq(codes, 1, Len(codes) - 1))
           c == codes[Len(codes)]
       IN  IF c \in SeqRange(init) THEN init ELSE Append(init, c)

SortedCodesInsertionOrder(keys) == keys

(* sorted(slot_dict.items()): the keys in ascending order of the code      *)
(* strings, which is the order of SLOT_CHOICES.                            *)
SortedCodes(keys) == SelectSeq(SLOT_CHOICES, LAMBDA c : c \in SeqRange(keys))

(* AvailableSlotsView.get: the response for a city and a date text. *)
available_slots_get(db, city, date_str) ==
  LET target_date == parse_date(date_str)
      codes == SortedCodes(slot_dict_keys(unbooked_slot_codes(db, city, target_date)))
  IN  IF city = "" THEN [status |-> "city_required", body |-> <<>>]
      ELSE IF date_str = "" THEN [status |-> "date_required", body |-> <<>>]
      ELSE IF target_date = NoDate THEN [status |-> "bad_date", body |-> <<>>]
      ELSE [status |-> "success",
            body |-> [i \in 1..Len(codes) |->
                        [slot |-> codes[i], label |-> SlotLabel(codes[i])]]]

(* ------------------------- BookView.post ------------------------------ *)
(* AvailabilitySlot.objects.filter(technician__city, date, slot,           *)
(* is_booked=False): the technicians of the rows, in retrieval order.      *)
available_slots(db, city, date, slot) ==
  SortedSeq({t \in Tech : /\ <<t, date, slot>> \in DOMAIN db.slots
                          /\ db.technicians[t].city = city
                          /\ ~db.slots[<<t, date, slot>>]})

(* The distance BookView.post ranks a candidate by. *)
DispatchDistanceInfFirst(db, t, customer_lat) ==
  IF db.technicians[t].current_lat # NoPos
  THEN haversine_distance(customer_lat, db.technicians[t].current_lat)
  ELSE 0

DispatchDistance(db, t, customer_lat) ==
  IF db.technicians[t].current_lat # NoPos
  THEN haversine_distance(customer_lat, db.technicians[t].current_lat)
  ELSE Infinity

(* list.sort(key=distance) is stable; element [0] of the sorted list is    *)
(* the first entry, in list order, that has the least key.                 *)
SortedFirst(keys) ==
  CHOOSE i \in 1..Len(keys) :
    \A j \in 1..Len(keys) : keys[i] < keys[j] \/ (keys[i] = keys[j] /\ i <= j)

RequiredFieldsPresent(req) ==
  /\ req.contact
  /\ req.city # ""
  /\ req.pincode # ""
  /\ req.date # ""
  /\ req.slot # ""

BookSelectPostalFirst(db, req) ==
  LET target_date == parse_date(req.date)
      coords == get_coords_from_pincode(req.pincode)
      cands == available_slots(db, req.city, target_date, req.slot)
      keys == [i \in 1..Len(cands) |-> DispatchDistance(db, cands[i], coords)]
      none == [tech |-> NoTech, city |-> "", date |-> NoDate, slot |-> "",
               pincode |-> "", lat |-> NoPos]
  IN  IF ~RequiredFieldsPresent(req) THEN [status |-> "invalid_field"] @@ none
      ELSE IF target_date = NoDate THEN [status |-> "bad_date"] @@ none
      ELSE IF coords = NoPos THEN [status |-> "postal_not_found"] @@ none
      ELSE IF req.slot \notin SeqRange(SLOT_CHOICES)
           THEN [status |-> "bad_time_window"] @@ none
      ELSE IF Len(cands) = 0 THEN [status |-> "no_technician_available"] @@ none
      ELSE [status |-> "success", tech |-> cands[SortedFirst(keys)],
            city |-> req.city, date |-> target_date, slot |-> req.slot,
            pincode |-> req.pincode, lat |-> coords]

(* The part of BookView.post before its transaction: validation, lookup    *)
(* and the choice of the technician.                                       *)
BookSelect(db, req) ==
  LET target_date == parse_date(req.date)
      coords == get_coords_from_pincode(req.pincode)
      cands == available_slots(db, req.city, target_date, req.slot)
      keys == [i \in 1..Len(cands) |-> DispatchDistance(db, cands[i], coords)]
      none == [tech |-> NoTech, city |-> "", date |-> NoDate, slot |-> "",
               pincode |-> "", lat |-> NoPos]
  IN  IF ~RequiredFieldsPresent(req) THEN [status |-> "invalid_field"] @@ none
      ELSE IF target_date = NoDate THEN [status |-> "bad_date"] @@ none
      ELSE IF req.slot \notin SeqRange(SLOT_CHOICES)
           THEN [status |-> "bad_time_window"] @@ none
      ELSE IF coords = NoPos THEN [status |-> "postal_not_found"] @@ none
      ELSE IF Len(cands) = 0 THEN [status |-> "no_technician_available"] @@ none
      ELSE [status |-> "success", tech |-> cands[SortedFirst(keys)],
            city |-> req.city, date |-> target_date, slot |-> req.slot,
            pincode |-> req.pincode, lat |-> coords]

BookWritesKeepsPosition(db, sel, n) ==
  LET w1 == [db EXCEPT !.slots[<<sel.tech, sel.date, sel.slot>>] = TRUE]
      w2 == [w1 EXCEPT !.bookings = Append(@,
                [city |-> sel.city, pincode |-> sel.pincode, lat |-> sel.lat,
                 date |-> sel.date, slot |-> sel.slot,
                 assigned_technician |-> sel.tech, status |-> "assigned"])]
  IN  CASE n = 0 -> db [] n = 1 -> w1 [] OTHER -> w2

(* The writes of BookView.post's transaction, in order, up to write n.     *)
(* The slot and the technician are saved from the objects read before the  *)
(* transaction.                                                            *)
BookWrites(db, sel, n) ==
  LET w1 == [db EXCEPT !.slots[<<sel.tech, sel.date, sel.slot>>] = TRUE]
      w2 == [w1 EXCEPT !.bookings = Append(@,
                [city |-> sel.city, pincode |-> sel.pincode, lat |-> sel.lat,
                 date |-> sel.date, slot |-> sel.slot,
                 assigned_technician |-> sel.tech, status |-> "assigned"])]
      w3 == [w2 EXCEPT !.technicians[sel.tech].current_lat = sel.lat]
  IN  CASE n = 0 -> db [] n = 1 -> w1 [] n = 2 -> w2 [] OTHER -> w3

BookTxKeepsWrites(db, sel, failAt) ==
  BookWrites(db, sel, IF failAt = 0 THEN 3 ELSE failAt - 1)

BookTx(db, sel, failAt) ==
  TxOutcome(db, BookWrites(db, sel, IF failAt = 0 THEN 3 ELSE failAt - 1),
            failAt = 0)

BookEffectSavesOnError(db, sel) ==
  IF sel.status = "success" THEN BookTx(db, sel, 0)
  ELSE [db EXCEPT !.bookings = Append(@,
          [city |-> sel.city, pincode |-> sel.pincode, lat |-> sel.lat,
           date |-> sel.date, slot |-> sel.slot,
           assigned_technician |-> NoTech, status |-> "pending"])]

(* What a call of BookView.post leaves in the database: the committed      *)
(* transaction when a technician was chosen, nothing on an error return.   *)
BookEffect(db, sel) ==
  IF sel.status = "success" THEN BookTx(db, sel, 0) ELSE db

(* ------------------------ optimizer.py helpers ------------------------ *)
RECURSIVE SumSeq(_)
SumSeq(s) == IF s = <<>> THEN 0 ELSE Head(s) + SumSeq(Tail(s))

(* Descending sequence of a finite set of integers. *)
RECURSIVE SortedSeqDesc(_)
SortedSeqDesc(S) ==
  IF S = {} THEN <<>>
  ELSE LET m == CHOOSE x \in S : \A y \in S : x >= y
       IN  <<m>> \o SortedSeqDesc(S \ {m})

(* A defaultdict(float) built by "d[key] += value" over a list, given as   *)
(* the keys and the values of its entries: the keys that occur, each with  *)
(* the sum of its values.                                                  *)
SumByKey(keys, vals) ==
  [k \in {keys[i] : i \in 1..Len(keys)} |->
     SumSeq([i \in 1..Len(keys) |-> IF keys[i] = k THEN vals[i] ELSE 0])]

(* Technician.objects.filter(name=...).first(): the row with the least     *)
(* primary key among those of that name, or none.                          *)
TechnicianByName(db, name) ==
  IF \E t \in Tech : db.technicians[t].name = name
  THEN CHOOSE t \in Tech : /\ db.technicians[t].name = name
                           /\ \A u \in Tech : db.technicians[u].name = name => t <= u
  ELSE NoTech

(* The point distance of a booking to a technician as the "before" sums    *)
(* take it: counted only when the technician's and the booking's           *)
(* latitudes are truthy.                                                   *)
OldKm(db, b) ==
  LET bk == db.bookings[b]
      t == bk.assigned_technician
  IN  IF t # NoTech /\ Truthy(db.technicians[t].current_lat) /\ Truthy(bk.lat)
      THEN haversine_distance(bk.lat, db.technicians[t].current_lat)
      ELSE 0

(* CustomerBooking.objects.filter(date, city, status='assigned',           *)
(* assigned_technician__isnull=False, lat/lng__isnull=False), in the       *)
(* model's default ordering -created_at: newest booking first.             *)
assigned_bookings(db, city, date) ==
  SortedSeqDesc({b \in 1..Len(db.bookings) :
                   /\ db.bookings[b].date = date
                   /\ db.bookings[b].city = city
                   /\ db.bookings[b].status = "assigned"
                   /\ db.bookings[b].assigned_technician # NoTech
                   /\ db.bookings[b].lat # NoPos})

build_current_state(db, city, date) ==
  LET bks == assigned_bookings(db, city, date)
      counted == SelectSeq(bks, LAMBDA b :
                   /\ Truthy(db.technicians[db.bookings[b].assigned_technician].current_lat)
                   /\ Truthy(db.bookings[b].lat))
      assignments == [i \in 1..Len(counted) |->
         [booking_id |-> counted[i], slot |-> db.bookings[counted[i]].slot,
          tech_name |-> db.technicians[db.bookings[counted[i]].assigned_technician].name,
          distance_km |-> OldKm(db, counted[i])]]
      kms == [i \in 1..Len(assignments) |-> assignments[i].distance_km]
  IN  [total_km |-> SumSeq(kms),
       per_slot |-> SumByKey([i \in 1..Len(assignments) |-> assignments[i].slot], kms),
       per_tech |-> SumByKey([i \in 1..Len(assignments) |-> assignments[i].tech_name], kms),
       assignments |-> assignments]

(* -------------------- scipy linear_sum_assignment --------------------- *)
RECURSIVE PermSeqs(_)
PermSeqs(S) ==
  IF S = {} THEN {<<>>}
  ELSE UNION {{<<x>> \o p : p \in PermSeqs(S \ {x})} : x \in S}

AssignmentCost(matrix, p) == SumSeq([i \in 1..Len(p) |-> matrix[i][p[i]]])

LexLeq(p, q) ==
  \/ p = q
  \/ \E k \in 1..Len(p) : p[k] < q[k] /\ \A j \in 1..(k - 1) : p[j] = q[j]

linear_sum_assignment_identity(matrix) == [i \in 1..Len(matrix) |-> i]

(* A complete assignment of rows to columns of least total cost; of        *)
(* several, the one the library returns is a function of the matrix,       *)
(* here the first in lexicographic order of the column indices.            *)
linear_sum_assignment(matrix) ==
  LET n == Len(matrix)
      all == PermSeqs(1..n)
      costs == {AssignmentCost(matrix, p) : p \in all}
      least == CHOOSE c \in costs : \A d \in costs : c <= d
      best == {p \in all : AssignmentCost(matrix, p) = least}
  IN  CHOOSE p \in best : \A q \in best : LexLeq(p, q)

(* ------------------------ _optimize_slot_group ------------------------ *)
(* The technicians of the booked AvailabilitySlot rows of the group, in    *)
(* retrieval order.                                                        *)
group_technicians(db, city, slot, date) ==
  SortedSeq({t \in Tech : /\ <<t, date, slot>> \in DOMAIN db.slots
                          /\ db.technicians[t].city = city
                          /\ db.slots[<<t, date, slot>>]})

Max(a, b) == IF a >= b THEN a ELSE b

distance_matrix(db, techs, customer_coords) ==
  LET max_size == Max(Len(techs), Len(customer_coords))
  IN  [i \in 1..max_size |-> [j \in 1..max_size |->
         IF /\ i <= Len(techs)
            /\ j <= Len(customer_coords)
            /\ db.technicians[techs[i]].current_lat # NoPos
         THEN haversine_distance(db.technicians[techs[i]].current_lat,
                                 db.bookings[customer_coords[j]].lat)
         ELSE Sentinel]]

RECURSIVE optimized_assignments_any_position(_, _, _, _, _)
optimized_assignments_any_position(db, techs, customer_coords, cols, i) ==
  IF i > Len(cols) THEN <<>>
  ELSE LET j == cols[i]
           rest == optimized_assignments_any_position(db, techs, customer_coords,
                                                      cols, i + 1)
       IN  IF i <= Len(techs) /\ j <= Len(customer_coords)
           THEN <<[booking |-> customer_coords[j], tech |-> techs[i],
                   dist |-> haversine_distance(db.technicians[techs[i]].current_lat,
                                               db.bookings[customer_coords[j]].lat)]>>
                \o rest
           ELSE rest

(* The loop over zip(row_indices, col_indices): the real pairs whose       *)
(* technician has a position, in row order.                                *)
RECURSIVE optimized_assignments(_, _, _, _, _)
optimized_assignments(db, techs, customer_coords, cols, i) ==
  IF i > Len(cols) THEN <<>>
  ELSE LET j == cols[i]
           rest == optimized_assignments(db, techs, customer_coords, cols, i + 1)
       IN  IF /\ i <= Len(techs)
              /\ j <= Len(customer_coords)
              /\ db.technicians[techs[i]].current_lat # NoPos
           THEN <<[booking |-> customer_coords[j], tech |-> techs[i],
                   dist |-> haversine_distance(db.technicians[techs[i]].current_lat,
                                               db.bookings[customer_coords[j]].lat)]>>
                \o rest
           ELSE rest

ImprovedNoEpsilon(improvement) == improvement >= 0

(* improvement >= 0.01 *)
Improved(improvement) == improvement >= ImprovedEps

optimize_slot_group_no_customer_test(db, city, slot, bks, date) ==
  LET techs == group_technicians(db, city, slot, date)
      customer_coords == SelectSeq(bks, LAMBDA b : db.bookings[b].lat # NoPos)
      old_total_distance == SumSeq([i \in 1..Len(bks) |-> OldKm(db, bks[i])])
      cols == linear_sum_assignment(distance_matrix(db, techs, customer_coords))
      optimized == optimized_assignments(db, techs, customer_coords, cols, 1)
      new_total_distance == SumSeq([i \in 1..Len(optimized) |-> optimized[i].dist])
      improvement == old_total_distance - new_total_distance
  IN  IF Len(techs) = 0
      THEN [has_result |-> FALSE, slot |-> slot, old_distance |-> 0,
            new_distance |-> 0, improvement_km |-> 0, improved |-> FALSE,
            optimized |-> <<>>]
      ELSE [has_result |-> TRUE, slot |-> slot,
            old_distance |-> old_total_distance,
            new_distance |-> new_total_distance,
            improvement_km |-> improvement,
            improved |-> Improved(improvement),
            optimized |-> optimized]

(* bks: the bookings of the group, as preview_optimization grouped them.   *)
optimize_slot_group(db, city, slot, bks, date) ==
  LET techs == group_technicians(db, city, slot, date)
      customer_coords == SelectSeq(bks, LAMBDA b : db.bookings[b].lat # NoPos)
      old_total_distance == SumSeq([i \in 1..Len(bks) |-> OldKm(db, bks[i])])
      cols == linear_sum_assignment(distance_matrix(db, techs, customer_coords))
      optimized == optimized_assignments(db, techs, customer_coords, cols, 1)
      new_total_distance == SumSeq([i \in 1..Len(optimized) |-> optimized[i].dist])
      improvement == old_total_distance - new_total_distance
  IN  IF Len(customer_coords) = 0 \/ Len(techs) = 0
      THEN [has_result |-> FALSE, slot |-> slot, old_distance |-> 0,
            new_distance |-> 0, improvement_km |-> 0, improved |-> FALSE,
            optimized |-> <<>>]
      ELSE [has_result |-> TRUE, slot |-> slot,
            old_distance |-> old_total_distance,
            new_distance |-> new_total_distance,
            improvement_km |-> improvement,
            improved |-> Improved(improvement),
            optimized |-> optimized]

(* ---------------------- _calculate_route_distance --------------------- *)
RECURSIVE Concat(_)
Concat(ss) == IF ss = <<>> THEN <<>> ELSE Head(ss) \o Concat(Tail(ss))

(* The walk over tech_bookings: hop from the current position to each      *)
(* booking in turn; only the local variables current_lat/current_lng move. *)
RECURSIVE RouteWalk(_, _, _)
RouteWalk(db, current_lat, tech_bookings) ==
  IF tech_bookings = <<>> THEN 0
  ELSE LET lat == db.bookings[Head(tech_bookings)].lat
       IN  haversine_distance(current_lat, lat)
           + RouteWalk(db, lat, Tail(tech_bookings))

(* entries: the (booking, technician, distance) tuples of all slots, each  *)
(* with its slot, in the order they were appended.                         *)
calculate_route_distance(db, tech_name, entries) ==
  LET tech == TechnicianByName(db, tech_name)
      of_slot(k) == SelectSeq(entries, LAMBDA e :
                       /\ e.slot = SLOT_ORDER[k]
                       /\ db.technicians[e.tech].name = tech_name
                       /\ Truthy(db.bookings[e.booking].lat))
      picked == Concat([k \in 1..Len(SLOT_ORDER) |-> of_slot(k)])
      tech_bookings == [i \in 1..Len(picked) |-> picked[i].booking]
  IN  IF tech = NoTech \/ ~Truthy(db.technicians[tech].current_lat) THEN 0
      ELSE RouteWalk(db, db.technicians[tech].current_lat, tech_bookings)

(* ------------------------ preview_optimization ------------------------ *)
(* sorted(grouped_bookings.items()): the slot codes that occur, ascending. *)
GroupSlots(db, bks) ==
  SelectSeq(SLOT_CHOICES, LAMBDA c : \E i \in 1..Len(bks) : db.bookings[bks[i]].slot = c)

ChangedByName(db, old_tech, tech) ==
  (IF old_tech # NoTech THEN db.technicians[old_tech].name ELSE "None")
    # db.technicians[tech].name

(* old_tech != tech on model instances: the primary keys differ. *)
Changed(db, old_tech, tech) == old_tech # tech

ChangeRecord(db, e) ==
  LET old_tech == db.bookings[e.booking].assigned_technician
      old_km == OldKm(db, e.booking)
      delta_km == old_km - e.dist
  IN  [booking_id |-> e.booking, slot |-> e.slot,
       old_technician |-> IF old_tech # NoTech THEN db.technicians[old_tech].name
                          ELSE "None",
       new_technician |-> db.technicians[e.tech].name,
       old_km |-> old_km, new_km |-> e.dist, delta_km |-> delta_km,
       abs_delta_km |-> Abs(delta_km),
       changed |-> Changed(db, old_tech, e.tech)]

(* The results of _optimize_slot_group for the slot groups, in loop order. *)
group_results(db, city, date) ==
  LET bks == assigned_bookings(db, city, date)
      gs == GroupSlots(db, bks)
  IN  [k \in 1..Len(gs) |->
         optimize_slot_group(db, city, gs[k],
           SelectSeq(bks, LAMBDA b : db.bookings[b].slot = gs[k]), date)]

(* optimized_assignments_by_slot, flattened in append order. *)
optimized_entries(rs) ==
  Concat([k \in 1..Len(rs) |->
    [i \in 1..Len(rs[k].optimized) |->
       [slot |-> rs[k].slot] @@ rs[k].optimized[i]]])

preview_optimization(db, city, date) ==
  LET before == build_current_state(db, city, date)
      bks == assigned_bookings(db, city, date)
      rs == group_results(db, city, date)
      entries == optimized_entries(rs)
      dists == [i \in 1..Len(entries) |-> entries[i].dist]
      after_total_km == SumSeq(dists)
      after_per_tech ==
        SumByKey([i \in 1..Len(entries) |-> db.technicians[entries[i].tech].name],
                 dists)
      before_entries == [i \in 1..Len(bks) |->
         [slot |-> db.bookings[bks[i]].slot, booking |-> bks[i],
          tech |-> db.bookings[bks[i]].assigned_technician, dist |-> 0]]
  IN  [before |->
         [total_km |-> before.total_km,
          per_slot |-> before.per_slot,
          per_tech |-> before.per_tech,
          per_tech_routes |-> [n \in DOMAIN before.per_tech |->
             calculate_route_distance(db, n, before_entries)],
          assignments |-> before.assignments],
       after |->
         [total_km |-> after_total_km,
          per_slot |-> SumByKey([i \in 1..Len(entries) |-> entries[i].slot], dists),
          per_tech |-> after_per_tech,
          per_tech_routes |-> [n \in DOMAIN after_per_tech |->
             calculate_route_distance(db, n, entries)],
          assignments |-> [i \in 1..Len(entries) |->
             [booking_id |-> entries[i].booking, slot |-> entries[i].slot,
              tech_name |-> db.technicians[entries[i].tech].name,
              distance_km |-> entries[i].dist]]],
       changes |-> [i \in 1..Len(entries) |-> ChangeRecord(db, entries[i])],
       groups_optimized |->
          Cardinality({k \in 1..Len(rs) : rs[k].has_result /\ rs[k].improved}),
       distance_saved_km |-> before.total_km - after_total_km]

(* ------------------------- apply_optimization ------------------------- *)
(* bookings_dict: the ids of CustomerBooking.objects.filter(date, city,    *)
(* status='assigned'), read at the start of the transaction.               *)
bookings_dict(db, city, date) ==
  {b \in 1..Len(db.bookings) : /\ db.bookings[b].date = date
                               /\ db.bookings[b].city = city
                               /\ db.bookings[b].status = "assigned"}

(* The mutation loop over preview['changes'] from change i on: the         *)
(* database after each of its writes, in order (booking.save(),            *)
(* old_slot.save(), new_slot.save()).                                      *)
RECURSIVE ApplyLoopTrace(_, _, _, _, _)
ApplyLoopTrace(db, dict, chs, i, date) ==
  IF i > Len(chs) THEN <<>>
  ELSE
    LET b == chs[i].booking_id
        new_tech == TechnicianByName(db, chs[i].new_technician)
        old_tech == db.bookings[b].assigned_technician
        slot == db.bookings[b].slot
        w1 == [db EXCEPT !.bookings[b].assigned_technician = new_tech]
        free_old == /\ old_tech # NoTech
                    /\ <<old_tech, date, slot>> \in DOMAIN w1.slots
                    /\ w1.slots[<<old_tech, date, slot>>]
        w2 == IF free_old THEN [w1 EXCEPT !.slots[<<old_tech, date, slot>>] = FALSE]
              ELSE w1
        book_new == /\ <<new_tech, date, slot>> \in DOMAIN w2.slots
                    /\ ~w2.slots[<<new_tech, date, slot>>]
        w3 == IF book_new THEN [w2 EXCEPT !.slots[<<new_tech, date, slot>>] = TRUE]
              ELSE w2
    IN  IF b \in dict /\ new_tech # NoTech /\ old_tech # new_tech
        THEN <<w1>> \o (IF free_old THEN <<w2>> ELSE <<>>)
                    \o (IF book_new THEN <<w3>> ELSE <<>>)
                    \o ApplyLoopTrace(w3, dict, chs, i + 1, date)
        ELSE ApplyLoopTrace(db, dict, chs, i + 1, date)

AssignmentRunRow(preview, city, date) ==
  [city |-> city, date |-> date,
   before_total_km |-> preview.before.total_km,
   after_total_km |-> preview.after.total_km,
   distance_saved_km |-> preview.distance_saved_km,
   groups_optimized |-> preview.groups_optimized,
   meta |-> [before_per_slot |-> preview.before.per_slot,
             after_per_slot |-> preview.after.per_slot,
             before_per_tech |-> preview.before.per_tech,
             after_per_tech |-> preview.after.per_tech,
             before_per_tech_routes |-> preview.before.per_tech_routes,
             after_per_tech_routes |-> preview.after.per_tech_routes]]

AssignmentChangeRow(run, ch) ==
  [run |-> run, booking |-> ch.booking_id, slot |-> ch.slot,
   old_technician |-> ch.old_technician, new_technician |-> ch.new_technician,
   old_km |-> ch.old_km, new_km |-> ch.new_km, delta_km |-> ch.delta_km,
   changed |-> ch.changed]

RECURSIVE AuditChangeTraceChangedOnly(_, _, _, _)
AuditChangeTraceChangedOnly(db, dict, chs, i) ==
  IF i > Len(chs) THEN <<>>
  ELSE IF chs[i].booking_id \in dict /\ chs[i].changed
       THEN LET w == [db EXCEPT !.changes =
                        Append(@, AssignmentChangeRow(Len(db.runs), chs[i]))]
            IN  <<w>> \o AuditChangeTraceChangedOnly(w, dict, chs, i + 1)
       ELSE AuditChangeTraceChangedOnly(db, dict, chs, i + 1)

(* The audit writes: AssignmentRun.objects.create, then one                *)
(* AssignmentChange.objects.create per change whose booking is in          *)
(* bookings_dict; the database after each of them.                         *)
RECURSIVE AuditChangeTrace(_, _, _, _)
AuditChangeTrace(db, dict, chs, i) ==
  IF i > Len(chs) THEN <<>>
  ELSE IF chs[i].booking_id \in dict
       THEN LET w == [db EXCEPT !.changes =
                        Append(@, AssignmentChangeRow(Len(db.runs), chs[i]))]
            IN  <<w>> \o AuditChangeTrace(w, dict, chs, i + 1)
       ELSE AuditChangeTrace(db, dict, chs, i + 1)

(* Every write of the transaction of apply_optimization, as the database   *)
(* after it.                                                               *)
ApplyTrace(db, preview, city, date) ==
  LET dict == bookings_dict(db, city, date)
      loop == ApplyLoopTrace(db, dict, preview.changes, 1, date)
      after_loop == IF Len(loop) = 0 THEN db ELSE loop[Len(loop)]
      with_run == [after_loop EXCEPT !.runs =
                     Append(@, AssignmentRunRow(preview, city, date))]
  IN  loop \o <<with_run>> \o AuditChangeTrace(with_run, dict, preview.changes, 1)

(* The bookings whose technician differs between two booking tables. *)
Reassigned(old, new) ==
  {b \in 1..Len(old) : new[b].assigned_technician # old[b].assigned_technician}

ApplyTxMovesTechnicians(db, preview, city, date, failAt) ==
  LET trace == ApplyTrace(db, preview, city, date)
      working == IF failAt = 0 THEN trace[Len(trace)]
                 ELSE IF failAt = 1 THEN db ELSE trace[failAt - 1]
      out == TxOutcome(db, working, failAt = 0)
      moved(t) == {b \in Reassigned(db.bookings, out.bookings) :
                     out.bookings[b].assigned_technician = t}
  IN  [out EXCEPT !.technicians = [t \in Tech |->
         IF moved(t) = {} THEN @[t]
         ELSE [@[t] EXCEPT !.current_lat =
                 out.bookings[CHOOSE b \in moved(t) :
                                \A c \in moved(t) : c <= b].lat]]]

(* The transaction: failAt = 0 commits; failAt = k fails on write k, when  *)
(* the writes before it have been made.                                    *)
ApplyTx(db, preview, city, date, failAt) ==
  LET trace == ApplyTrace(db, preview, city, date)
      working == IF failAt = 0 THEN trace[Len(trace)]
                 ELSE IF failAt = 1 THEN db ELSE trace[failAt - 1]
  IN  TxOutcome(db, working, failAt = 0)

(* ------------------------------ requests ------------------------------ *)
ReqSlots == {"09_11", "11_13"}
ReqPincodes == {"110001", "110002", "110003"}
ReqDates == {"2025-01-15"}
OptDates == {15}

Req(contact, city, date, slot, pincode) ==
  [contact |-> contact, city |-> city, date |-> date, slot |-> slot,
   pincode |-> pincode]

(* Well-formed requests: every one for Delhi, one for Mumbai. *)
ValidRequests ==
  [contact : {TRUE}, city : {"Delhi"}, date : ReqDates, slot : ReqSlots,
   pincode : ReqPincodes]
  \cup { Req(TRUE, "Mumbai", "2025-01-15", "09_11", "110002") }

(* Requests with one or several defects, a request for a city without      *)
(* technicians, and a postal code with blanks around it.                   *)
OtherRequests ==
  { Req(FALSE, "Delhi", "2025-01-15", "09_11", "110001"),
    Req(TRUE, "Delhi", "", "09_11", "110001"),
    Req(FALSE, "Delhi", "15/01/2025", "10_12", "999999"),
    Req(TRUE, "Delhi", "15/01/2025", "09_11", "110001"),
    Req(TRUE, "Delhi", "2025-13-45", "10_12", "999999"),
    Req(TRUE, "Delhi", "2025-01-15", "10_12", "110001"),
    Req(TRUE, "Delhi", "2025-01-15", "10_12", "999999"),
    Req(TRUE, "Delhi", "2025-01-15", "09_11", "999999"),
    Req(TRUE, "Pune", "2025-01-15", "09_11", "999999"),
    Req(TRUE, "Pune", "2025-01-15", "09_11", "110001"),
    Req(TRUE, "Delhi", "2025-01-15", "09_11", " 110001 ") }

(* The requests of the specification that has every error path. *)
OpsValidRequests ==
  { Req(TRUE, "Delhi", "2025-01-15", "09_11", "110001"),
    Req(TRUE, "Delhi", "2025-01-15", "09_11", "110003"),
    Req(TRUE, "Delhi", "2025-01-15", "11_13", "110003"),
    Req(TRUE, "Mumbai", "2025-01-15", "09_11", "110002") }

Requests == OpsValidRequests \cup OtherRequests

Idle == [kind |-> "idle"]

SetDB(db) ==
  /\ technicians' = db.technicians
  /\ slots' = db.slots
  /\ bookings' = db.bookings
  /\ runs' = db.runs
  /\ changes' = db.changes

UnchangedDB == UNCHANGED <<technicians, slots, bookings, runs, changes>>

(* The response to the latest request: the operation, its outcome and,    *)
(* for a success that wrote, the city, date and technician it was for.     *)
Result(op, status, city, date, tech) ==
  [op |-> op, status |-> status, city |-> city, date |-> date, tech |-> tech]

(* -------------------------------- Init -------------------------------- *)
Init ==
  /\ technicians \in TechConfigs
  /\ slots = [k \in SlotKey |-> FALSE]
  /\ bookings = <<>>
  /\ runs = <<>>
  /\ changes = <<>>
  /\ last = Result("none", "none", "", NoDate, NoTech)
  /\ inflight = [p \in 1..MaxInflight |-> Idle]

(* --------------------- requests served one at a time ------------------ *)
(* BookView.post, from the request to the response. *)
CreateBooking(req) ==
  LET sel == BookSelect(DB, req)
  IN  /\ SetDB(BookEffect(DB, sel))
      /\ last' = Result("book", sel.status, sel.city, sel.date, sel.tech)
      /\ UNCHANGED inflight

(* BookView.post when write failAt of its transaction raises. *)
CreateBookingFail(req, failAt) ==
  LET sel == BookSelect(DB, req)
  IN  /\ sel.status = "success"
      /\ SetDB(BookTx(DB, sel, failAt))
      /\ last' = Result("book", "internal_error", "", NoDate, NoTech)
      /\ UNCHANGED inflight

PreviewEffectSavesPosition(db, city, date) ==
  LET es == optimized_entries(group_results(db, city, date))
      visits(t) == {i \in 1..Len(es) : es[i].tech = t}
  IN  [db EXCEPT !.technicians = [t \in Tech |->
         IF visits(t) = {} THEN @[t]
         ELSE [@[t] EXCEPT !.current_lat =
                 db.bookings[es[CHOOSE i \in visits(t) :
                                  \A j \in visits(t) : j <= i].booking].lat]]]

(* What preview_optimization leaves in the database: it saves no row; the  *)
(* route walk moves local variables only.                                  *)
PreviewEffect(db, city, date) == db

PreviewOptimization(city, date) ==
  /\ SetDB(PreviewEffect(DB, city, date))
  /\ last' = Result("preview", "success", "", NoDate, NoTech)
  /\ UNCHANGED inflight

(* apply_optimization, from the call to the returned AssignmentRun. *)
ApplyOptimization(city, date) ==
  /\ SetDB(ApplyTx(DB, preview_optimization(DB, city, date), city, date, 0))
  /\ last' = Result("apply", "success", city, date, NoTech)
  /\ UNCHANGED inflight

(* apply_optimization when one of the writes of its transaction raises. *)
ApplyOptimizationFail(city, date) ==
  LET preview == preview_optimization(DB, city, date)
      writes == Len(ApplyTrace(DB, preview, city, date))
  IN  /\ \E failAt \in 1..writes : SetDB(ApplyTx(DB, preview, city, date, failAt))
      /\ last' = Result("apply", "internal_error", "", NoDate, NoTech)
      /\ UNCHANGED inflight

(* AvailableSlotsView.get: a read that answers and writes nothing. *)
AvailableSlotsGet(city, date_str) ==
  /\ UnchangedDB
  /\ last' = Result("slots", available_slots_get(DB, city, date_str).status,
                    "", NoDate, NoTech)
  /\ UNCHANGED inflight

(* Dispatch and Apply calls, one after the other. *)
Next ==
  \/ \E req \in ValidRequests :
       Len(bookings) < MaxBookings /\ CreateBooking(req)
  \/ \E city \in Cities, date \in OptDates :
       Len(runs) < MaxRuns /\ ApplyOptimization(city, date)

Spec == Init /\ [][Next]_vars

(* Every operation, with its error paths. *)
NextOps ==
  \/ \E req \in Requests :
       Len(bookings) < MaxOpsBookings /\ CreateBooking(req)
  \/ \E req \in OpsValidRequests, failAt \in 1..3 : CreateBookingFail(req, failAt)
  \/ \E city \in Cities, date \in OptDates : PreviewOptimization(city, date)
  \/ \E city \in Cities, date \in OptDates :
       Len(runs) < MaxOpsRuns /\ ApplyOptimization(city, date)
  \/ \E city \in Cities, date \in OptDates : ApplyOptimizationFail(city, date)

SpecOps == Init /\ [][NextOps]_vars

(* ------------------------ concurrent requests ------------------------- *)
(* Requests in flight at once.  BookView.post reads and chooses outside    *)
(* its transaction; apply_optimization computes its preview outside its    *)
(* transaction.  A transaction is one step.                                *)
Pending(kind) == Cardinality({p \in DOMAIN inflight : inflight[p].kind = kind})

BookBegin(p, req) ==
  LET sel == BookSelect(DB, req)
  IN  /\ inflight[p] = Idle
      /\ UnchangedDB
      /\ IF sel.status = "success"
         THEN /\ inflight' = [inflight EXCEPT ![p] = [kind |-> "book", sel |-> sel]]
              /\ UNCHANGED last
         ELSE /\ last' = Result("book", sel.status, sel.city, sel.date, sel.tech)
              /\ UNCHANGED inflight

BookCommitWaitsForSlot(p) ==
  /\ inflight[p].kind = "book"
  /\ ~slots[<<inflight[p].sel.tech, inflight[p].sel.date, inflight[p].sel.slot>>]
  /\ SetDB(BookTx(DB, inflight[p].sel, 0))
  /\ last' = Result("book", "success", inflight[p].sel.city, inflight[p].sel.date,
                    inflight[p].sel.tech)
  /\ inflight' = [inflight EXCEPT ![p] = Idle]

(* The transaction of BookView.post and the response.  The writes wait for *)
(* nothing: the slot is saved as booked whatever its state has become.     *)
BookCommit(p) ==
  /\ inflight[p].kind = "book"
  /\ SetDB(BookTx(DB, inflight[p].sel, 0))
  /\ last' = Result("book", "success", inflight[p].sel.city, inflight[p].sel.date,
                    inflight[p].sel.tech)
  /\ inflight' = [inflight EXCEPT ![p] = Idle]

ApplyBegin(p, city, date) ==
  /\ inflight[p] = Idle
  /\ UnchangedDB
  /\ inflight' = [inflight EXCEPT ![p] =
       [kind |-> "apply", city |-> city, date |-> date,
        preview |-> preview_optimization(DB, city, date)]]
  /\ UNCHANGED last

ApplyCommit(p) ==
  /\ inflight[p].kind = "apply"
  /\ SetDB(ApplyTx(DB, inflight[p].preview, inflight[p].city, inflight[p].date, 0))
  /\ last' = Result("apply", "success", inflight[p].city, inflight[p].date, NoTech)
  /\ inflight' = [inflight EXCEPT ![p] = Idle]

NextConc ==
  \/ \E p \in DOMAIN inflight, req \in ValidRequests :
       Len(bookings) + Pending("book") < MaxConcBookings /\ BookBegin(p, req)
  \/ \E p \in DOMAIN inflight : BookCommit(p)
  \/ \E p \in DOMAIN inflight, city \in Cities, date \in OptDates :
       Len(runs) + Pending("apply") < MaxConcRuns /\ ApplyBegin(p, city, date)
  \/ \E p \in DOMAIN inflight : ApplyCommit(p)

SpecConc == Init /\ [][NextConc]_vars

(* ------------------- every request runs to its end -------------------- *)
(* Concurrent requests for one time-window of one city.  A request         *)
(* handler that has started keeps running: its remaining step is taken     *)
(* once it stays possible.                                                 *)
LiveRequests ==
  { Req(TRUE, "Delhi", "2025-01-15", "09_11", "110001"),
    Req(TRUE, "Delhi", "2025-01-15", "09_11", "110003") }

NextLive ==
  \/ \E p \in DOMAIN inflight, req \in LiveRequests :
       Len(bookings) + Pending("book") < MaxLiveBookings /\ BookBegin(p, req)
  \/ \E p \in DOMAIN inflight : BookCommit(p)
  \/ \E p \in DOMAIN inflight, date \in OptDates :
       Len(runs) + Pending("apply") < MaxLiveRuns /\ ApplyBegin(p, "Delhi", date)
  \/ \E p \in DOMAIN inflight : ApplyCommit(p)

(* Weak fairness of the commit step of every request.  For Apply it is     *)
(* WF_vars(ApplyCommit(p)) written out: the step is enabled exactly while  *)
(* the Apply of p is in flight.                                            *)
SpecLive ==
  /\ Init
  /\ [][NextLive]_vars
  /\ \A p \in 1..MaxInflight : WF_vars(BookCommit(p))
  /\ \A p \in 1..MaxInflight :
        \/ []<>(inflight[p].kind # "apply")
        \/ []<><<ApplyCommit(p)>>_vars

(* ------------------- databases entered by the staff -------------------- *)
(* Booking rows are editable in the admin site and a technician's          *)
(* position is any optional float, so the optimizer also runs on tables    *)
(* that no dispatch produced.  Two Delhi technicians, of distinct names or *)
(* of one name, each with or without a position (latitude 0.0 included),   *)
(* and two assigned bookings whose slots are booked.                       *)
FixTechnicians ==
  { <<TechRow("T1", "Delhi", l1), TechRow(n2, "Delhi", l2),
      TechRow("T3", "Mumbai", NoPos)>> :
      l1 \in {NoPos, 0, 2}, l2 \in {NoPos, 10}, n2 \in {"T2", "T1"} }

FixBooking(lat, slot, tech) ==
  [city |-> "Delhi", pincode |-> "", lat |-> lat, date |-> 15, slot |-> slot,
   assigned_technician |-> tech, status |-> "assigned"]

FixBookings ==
  { <<FixBooking(lat1, "09_11", t1), FixBooking(9, slot2, t2)>> :
      lat1 \in {NoPos, 1}, t1 \in {1, 2}, slot2 \in {"09_11", "11_13"},
      t2 \in {1, 2} }

InitFixture ==
  /\ technicians \in FixTechnicians
  /\ bookings \in FixBookings
  /\ slots = [k \in SlotKey |->
                \E b \in 1..Len(bookings) :
                   k = <<bookings[b].assigned_technician, bookings[b].date,
                         bookings[b].slot>>]
  /\ runs = <<>>
  /\ changes = <<>>
  /\ last = Result("none", "none", "", NoDate, NoTech)
  /\ inflight = [p \in 1..MaxInflight |-> Idle]

SlotQueryCities == {"Delhi", "Mumbai", "Pune", ""}
SlotQueryDates == {"2025-01-15", "2025-01-16", "15/01/2025", ""}

NextFixture ==
  \/ \E city \in SlotQueryCities, date_str \in SlotQueryDates :
       AvailableSlotsGet(city, date_str)
  \/ \E city \in Cities, date \in OptDates : PreviewOptimization(city, date)
  \/ \E city \in Cities, date \in OptDates :
       Len(runs) < MaxFixRuns /\ ApplyOptimization(city, date)

SpecFixture == InitFixture /\ [][NextFixture]_vars

(* ---------------------- generate_slots_for_date ----------------------- *)
STANDARD_SLOTS == <<"09_11", "11_13", "13_15", "15_17", "17_19">>

(* Technician.objects.filter(is_active=True), in primary-key order. *)
active_technicians(db) ==
  SortedSeq({t \in Tech : db.technicians[t].is_active})

(* The (technician, code) pairs in the order the nested loops visit them. *)
TechSlotPairs(techs) ==
  [i \in 1..(Len(techs) * Len(STANDARD_SLOTS)) |->
     <<techs[((i - 1) \div Len(STANDARD_SLOTS)) + 1],
       STANDARD_SLOTS[((i - 1) % Len(STANDARD_SLOTS)) + 1]>>]

get_or_create_overwrites(tbl, key) ==
  [tbl |-> [k \in DOMAIN tbl \cup {key} |->
              IF k = key THEN FALSE ELSE tbl[k]],
   created |-> TRUE]

(* AvailabilitySlot.objects.get_or_create(technician, date, slot,          *)
(* defaults={'is_booked': False}) on the slot table, whose rows are unique *)
(* per (technician, date, slot).                                           *)
get_or_create(tbl, key) ==
  IF key \in DOMAIN tbl
  THEN [tbl |-> tbl, created |-> FALSE]
  ELSE [tbl |-> [k \in DOMAIN tbl \cup {key} |->
                   IF k = key THEN FALSE ELSE tbl[k]],
        created |-> TRUE]

(* The two loops of generate_slots_for_date with their counters. *)
RECURSIVE generate_loop(_, _, _, _, _)
generate_loop(tbl, date, pairs, created_count, skipped_count) ==
  IF pairs = <<>>
  THEN [tbl |-> tbl, created |-> created_count, skipped |-> skipped_count]
  ELSE LET r == get_or_create(tbl, <<Head(pairs)[1], date, Head(pairs)[2]>>)
       IN  IF r.created
           THEN generate_loop(r.tbl, date, Tail(pairs),
                              created_count + 1, skipped_count)
           ELSE generate_loop(r.tbl, date, Tail(pairs),
                              created_count, skipped_count + 1)

generate_slots_for_date(db, date) ==
  LET r == generate_loop(db.slots, date,
                         TechSlotPairs(active_technicians(db)), 0, 0)
  IN  [db |-> [db EXCEPT !.slots = r.tbl],
       created |-> r.created, skipped |-> r.skipped]

(* One call of generate_slots_for_date(target_date). *)
GenerateSlots(date) ==
  LET r == generate_slots_for_date(DB, date)
  IN  /\ SetDB(r.db)
      /\ last' = [op |-> "generate", status |-> "success", date |-> date,
                  created |-> r.created, skipped |-> r.skipped]
      /\ UNCHANGED inflight

(* The states the generator is called in: any of the technicians may be    *)
(* inactive, and slot rows of the first MaxSeedCodes codes of date 15 may  *)
(* exist already for technicians 1 and 2, free or booked by a booking.     *)
SlotTechnicians ==
  { <<[TechRow("A", "Delhi", NoPos) EXCEPT !.is_active = a1],
      [TechRow("B", "Delhi", NoPos) EXCEPT !.is_active = a2],
      [TechRow("C", "Mumbai", NoPos) EXCEPT !.is_active = a3]>> :
      a1 \in BOOLEAN, a2 \in BOOLEAN, a3 \in BOOLEAN }

SeedKeySeq ==
  [i \in 1..(2 * MaxSeedCodes) |->
     <<((i - 1) \div MaxSeedCodes) + 1, 15,
       STANDARD_SLOTS[((i - 1) % MaxSeedCodes) + 1]>>]

SeedTables ==
  UNION { [K -> BOOLEAN] : K \in SUBSET SeqRange(SeedKeySeq) }

SeedBookings(tbl) ==
  LET Booked(k) == k \in DOMAIN tbl /\ tbl[k]
      ks == SelectSeq(SeedKeySeq, Booked)
  IN  [i \in 1..Len(ks) |-> FixBooking(1, ks[i][3], ks[i][1])]

InitSlots ==
  /\ technicians \in SlotTechnicians
  /\ slots \in SeedTables
  /\ bookings = SeedBookings(slots)
  /\ runs = <<>>
  /\ changes = <<>>
  /\ last = Result("none", "none", "", NoDate, NoTech)
  /\ inflight = [p \in 1..MaxInflight |-> Idle]

NextSlots == \E date \in Dates : GenerateSlots(date)

SpecSlots == InitSlots /\ [][NextSlots]_vars

(* ------------------------------- claims ------------------------------- *)
(* The assigned bookings that reference the slot (technician, date,        *)
(* time-window).                                                           *)
BookingsOn(k) ==
  {b \in 1..Len(bookings) : /\ bookings[b].status = "assigned"
                            /\ bookings[b].assigned_technician = k[1]
                            /\ bookings[b].date = k[2]
                            /\ bookings[b].slot = k[3]}

(* C1: in every state reached by dispatch and apply calls from a state     *)
(* with no bookings and no booked slot, a slot is booked if and only if    *)
(* exactly one assigned booking references its technician, date and        *)
(* time-window.                                                            *)
C1_SlotBookedIffOneBooking ==
  \A k \in DOMAIN slots : slots[k] <=> Cardinality(BookingsOn(k)) = 1

IsStep(op, status) == last'.op = op /\ last'.status = status

(* The AssignmentChange rows of AssignmentRun r. *)
ChangesOfRun(chs, r) == {i \in 1..Len(chs) : chs[i].run = r}

(* C2: an Apply that directly follows a successful Apply of the same city  *)
(* and date records distance_saved_km = 0 and groups_optimized = 0 and     *)
(* has no AssignmentChange row with changed = true.                        *)
C2_SecondApplyIsNoOp ==
  [][(/\ last.op = "apply" /\ last.status = "success"
      /\ IsStep("apply", "success")
      /\ last'.city = last.city /\ last'.date = last.date
      /\ Len(runs') = Len(runs) + 1)
     => /\ runs'[Len(runs')].distance_saved_km = 0
        /\ runs'[Len(runs')].groups_optimized = 0
        /\ \A i \in ChangesOfRun(changes', Len(runs')) : ~changes'[i].changed]_vars

(* C3: under any interleaving of concurrent dispatch and apply requests,   *)
(* no two assigned bookings reference the same technician, date and        *)
(* time-window.                                                            *)
C3_NoDoubleBooking ==
  \A k \in DOMAIN slots : Cardinality(BookingsOn(k)) <= 1

(* C4: an Apply whose transaction fails leaves every technician, slot and  *)
(* booking as it was and creates no AssignmentRun and no AssignmentChange. *)
C4_FailedApplyRollsBack ==
  [][IsStep("apply", "internal_error") => UnchangedDB]_vars

(* A failed Apply whose preview held a reassignment to write. *)
C4_Witness ==
  /\ last.op = "apply" /\ last.status = "internal_error"
  /\ \E city \in Cities, date \in OptDates :
       \E i \in 1..Len(preview_optimization(DB, city, date).changes) :
          preview_optimization(DB, city, date).changes[i].changed

(* C5: a Preview changes no Technician, AvailabilitySlot, Booking,         *)
(* AssignmentRun or AssignmentChange row.                                  *)
C5_PreviewMutatesNothing ==
  [][IsStep("preview", "success") => UnchangedDB]_vars

(* A Preview that matched bookings to technicians. *)
C5_Witness ==
  /\ last.op = "preview"
  /\ \E city \in Cities, date \in OptDates :
       Len(preview_optimization(DB, city, date).changes) > 0

(* C7: a successful dispatch chooses, among the technicians of the city    *)
(* with an unbooked slot for the date and time-window, one of least        *)
(* distance to the customer; a technician without a position is chosen     *)
(* only when no candidate has one; of equals the first retrieved wins.     *)
C7_DispatchPicksNearest ==
  [][IsStep("book", "success") =>
       LET nb == bookings'[Len(bookings')]
           t == nb.assigned_technician
           cands == {c \in Tech : /\ technicians[c].city = nb.city
                                  /\ <<c, nb.date, nb.slot>> \in DOMAIN slots
                                  /\ ~slots[<<c, nb.date, nb.slot>>]}
           pos(c) == technicians[c].current_lat # NoPos
           d(c) == Abs(technicians[c].current_lat - nb.lat)
       IN  /\ t \in cands
           /\ \A c \in cands : pos(c) => (pos(t) /\ d(t) <= d(c))
           /\ \A c \in cands : c < t => (pos(t) /\ (~pos(c) \/ d(c) > d(t)))]_vars

(* A dispatch that chose the second technician although the first, who     *)
(* has a position, was free for the time-window too.                       *)
C7_Witness ==
  /\ last.op = "book" /\ last.status = "success" /\ last.tech = 2
  /\ technicians[1].current_lat # NoPos
  /\ technicians[1].city = bookings[Len(bookings)].city
  /\ ~slots[<<1, bookings[Len(bookings)].date, bookings[Len(bookings)].slot>>]

(* C8: a successful dispatch books the chosen technician's slot, adds one  *)
(* booking with status assigned for that technician, sets that             *)
(* technician's position to the customer's coordinates, and changes        *)
(* nothing else.                                                           *)
C8_DispatchWrites ==
  [][IsStep("book", "success") =>
       LET n == Len(bookings')
           nb == bookings'[n]
           t == nb.assigned_technician
           key == <<t, nb.date, nb.slot>>
       IN  /\ n = Len(bookings) + 1
           /\ SubSeq(bookings', 1, n - 1) = bookings
           /\ nb.status = "assigned"
           /\ t = last'.tech /\ t \in Tech
           /\ key \in DOMAIN slots
           /\ slots' = [slots EXCEPT ![key] = TRUE]
           /\ StripPincode(nb.pincode) \in DOMAIN PINCODE_COORDS
           /\ nb.lat = PINCODE_COORDS[StripPincode(nb.pincode)]
           /\ technicians' = [technicians EXCEPT ![t].current_lat = nb.lat]
           /\ UNCHANGED <<runs, changes>>]_vars

(* A dispatch into a database that held a booking already, made for a      *)
(* customer away from the technician's former position.                    *)
C8_Witness ==
  /\ last.op = "book" /\ last.status = "success"
  /\ Len(bookings) >= 2
  /\ technicians[last.tech].current_lat = bookings[Len(bookings)].lat
  /\ \E b \in 1..(Len(bookings) - 1) :
        /\ bookings[b].assigned_technician = last.tech
        /\ bookings[b].lat # bookings[Len(bookings)].lat

BookErrors ==
  {"invalid_field", "bad_date", "bad_time_window", "postal_not_found",
   "no_technician_available"}

(* C9: a dispatch that returns one of its errors creates no booking and    *)
(* changes no slot and no technician.                                      *)
C9_DispatchErrorWritesNothing ==
  [][(last'.op = "book" /\ last'.status \in BookErrors) => UnchangedDB]_vars

(* A refused postal code in a database that holds bookings. *)
C9_Witness ==
  /\ last.op = "book" /\ last.status = "postal_not_found"
  /\ Len(bookings) > 0

(* C10: every Slot Group Optimizer run on a group of a reachable state      *)
(* yields a new total distance that is not greater than the old one.       *)
C10_GroupNeverWorse ==
  \A city \in Cities, date \in OptDates :
    LET rs == group_results(DB, city, date)
    IN  \A k \in 1..Len(rs) :
          rs[k].has_result => rs[k].new_distance <= rs[k].old_distance

(* C11: no AssignmentRun is committed with after_total_km greater than      *)
(* before_total_km, and an Apply that commits such a run reassigns no       *)
(* booking.                                                                *)
C11_NoWorseningRun ==
  [][(IsStep("apply", "success") /\ Len(runs') = Len(runs) + 1)
     => /\ runs'[Len(runs')].after_total_km <= runs'[Len(runs')].before_total_km
        /\ runs'[Len(runs')].distance_saved_km >= 0]_vars

(* The swap scenario: T1 at latitude 0.0, T2 at 10, booking 1 at 1          *)
(* assigned to T2 and booking 2 at 9 assigned to T1, both in 09_11.         *)
SwapScenario ==
  /\ technicians[1].name = "T1" /\ technicians[2].name = "T2"
  /\ technicians[1].current_lat = 0 /\ technicians[2].current_lat = 10
  /\ Len(bookings) = 2
  /\ bookings[1].lat = 1 /\ bookings[1].assigned_technician = 2
  /\ bookings[2].lat = 9 /\ bookings[2].assigned_technician = 1
  /\ bookings[1].slot = "09_11" /\ bookings[2].slot = "09_11"
  /\ bookings[1].status = "assigned" /\ bookings[2].status = "assigned"
  /\ slots[<<1, 15, "09_11">>] /\ slots[<<2, 15, "09_11">>]

(* C12: in the swap scenario Preview matches T1 to booking 1 and T2 to      *)
(* booking 2, reports before total = distance(T2,B1) + distance(T1,B2)     *)
(* and after total = distance(T1,B1) + distance(T2,B2), and reports both   *)
(* changes with changed = true.                                            *)
C12_SwapScenario ==
  SwapScenario =>
    LET p == preview_optimization(DB, "Delhi", 15)
    IN  /\ Len(p.changes) = 2
        /\ \A i \in 1..2 :
              /\ p.changes[i].changed
              /\ p.changes[i].booking_id = 1 => p.changes[i].new_technician = "T1"
              /\ p.changes[i].booking_id = 2 => p.changes[i].new_technician = "T2"
        /\ p.after.total_km = haversine_distance(0, 1) + haversine_distance(10, 9)
        /\ p.before.total_km = haversine_distance(10, 1) + haversine_distance(0, 9)

(* C13: when an Apply commits, for every booking it reassigned the new     *)
(* technician's slot in the booking's time-window is booked, and the old   *)
(* technician's slot in that window is free unless another booking is      *)
(* assigned to it.                                                         *)
C13_SlotPairTogether ==
  [][IsStep("apply", "success") =>
       \A b \in Reassigned(bookings, bookings') :
         LET old_key == <<bookings[b].assigned_technician, bookings[b].date,
                          bookings[b].slot>>
             new_key == <<bookings'[b].assigned_technician, bookings'[b].date,
                          bookings'[b].slot>>
         IN  /\ slots'[new_key]
             /\ slots'[old_key] =>
                   \E c \in 1..Len(bookings') :
                      /\ bookings'[c].status = "assigned"
                      /\ <<bookings'[c].assigned_technician, bookings'[c].date,
                            bookings'[c].slot>> = old_key]_vars

(* C14: an Apply reassigns a booking if and only if the booking's change   *)
(* record has changed = true, and afterwards every matched booking         *)
(* references the very technician row the matching selected for it.        *)
C14_ReassignsToMatchedTechnician ==
  [][IsStep("apply", "success") =>
       LET es == optimized_entries(group_results(DB, last'.city, last'.date))
       IN  /\ \A i \in 1..Len(es) :
                bookings'[es[i].booking].assigned_technician = es[i].tech
           /\ \A b \in 1..Len(bookings) :
                b \in Reassigned(bookings, bookings') <=>
                  \E i \in 1..Len(es) : /\ es[i].booking = b
                                        /\ ChangeRecord(DB, es[i]).changed]_vars

(* C15: a successful Apply adds exactly one AssignmentRun and, in the       *)
(* order of its preview, exactly one AssignmentChange per change record,   *)
(* those with changed = false included, each belonging to the new run.     *)
C15_OneRunOneChangePerRecord ==
  [][IsStep("apply", "success") =>
       LET p == preview_optimization(DB, last'.city, last'.date)
       IN  /\ Len(runs') = Len(runs) + 1
           /\ SubSeq(runs', 1, Len(runs)) = runs
           /\ changes' = changes \o
                 [i \in 1..Len(p.changes) |->
                    AssignmentChangeRow(Len(runs'), p.changes[i])]]_vars

(* A committed Apply whose run has a record with changed = false. *)
C15_Witness ==
  /\ last.op = "apply" /\ last.status = "success"
  /\ \E i \in ChangesOfRun(changes, Len(runs)) : ~changes[i].changed

(* The time-window groups of a preview in which the technician of at       *)
(* least one booking differs between the before and after assignment.      *)
GroupsWithChangedMatching(p) ==
  {p.changes[i].slot : i \in {j \in 1..Len(p.changes) : p.changes[j].changed}}

(* C16: in every preview report groups_optimized is the number of          *)
(* time-window groups whose matching changed.                              *)
C16_GroupsOptimizedCountsChangedGroups ==
  \A city \in Cities, date \in OptDates :
    preview_optimization(DB, city, date).groups_optimized =
      Cardinality(GroupsWithChangedMatching(preview_optimization(DB, city, date)))

(* The position of a slot code in the ascending order of the codes. *)
CodeRank(code) == CHOOSE i \in 1..Len(SLOT_CHOICES) : SLOT_CHOICES[i] = code

(* C17: the answer for a city and a date lists each time-window code at    *)
(* most once, in ascending code order, lists a code exactly when some      *)
(* technician of the city has an unbooked slot with that code on that      *)
(* date, and its entries have a code and a label and name no technician.   *)
C17_AvailableSlotsDistinctSorted ==
  \A city \in SlotQueryCities \ {""}, date_str \in {"2025-01-15", "2025-01-16"} :
    LET r == available_slots_get(DB, city, date_str)
        d == parse_date(date_str)
    IN  /\ r.status = "success"
        /\ \A i, j \in 1..Len(r.body) :
              i < j => CodeRank(r.body[i].slot) < CodeRank(r.body[j].slot)
        /\ \A c \in SeqRange(SLOT_CHOICES) :
              (\E i \in 1..Len(r.body) : r.body[i].slot = c) <=>
              (\E t \in Tech : /\ technicians[t].city = city
                                /\ <<t, d, c>> \in DOMAIN slots
                                /\ ~slots[<<t, d, c>>])
        /\ \A i \in 1..Len(r.body) : DOMAIN r.body[i] = {"slot", "label"}

(* A slot query answered while the first Delhi technician is booked for    *)
(* 09_11 and the second still has that time-window free.                   *)
C17_Witness ==
  /\ last.op = "slots" /\ last.status = "success"
  /\ slots[<<1, 15, "09_11">>] /\ ~slots[<<2, 15, "09_11">>]
  /\ \E i \in 1..Len(available_slots_get(DB, "Delhi", "2025-01-15").body) :
        available_slots_get(DB, "Delhi", "2025-01-15").body[i].slot = "09_11"

(* C18: a step that is not a successful dispatch (a refused or failed      *)
(* dispatch, a Preview with its route computation, a committed or failed   *)
(* Apply) leaves the position of every technician as it was.               *)
C18_OnlyDispatchMovesTechnicians ==
  [][~IsStep("book", "success") =>
       \A t \in Tech : technicians'[t].current_lat = technicians[t].current_lat]_vars

(* A committed Apply after which a booking is assigned to a technician     *)
(* who stands at latitude 0.0, where no postal code lies: the booking was  *)
(* reassigned to that technician, and the technician has not moved.        *)
C18_Witness ==
  /\ last.op = "apply" /\ last.status = "success"
  /\ \E i \in ChangesOfRun(changes, Len(runs)) :
        /\ bookings[changes[i].booking].assigned_technician # NoTech
        /\ technicians[bookings[changes[i].booking].assigned_technician].current_lat = 0
        /\ bookings[changes[i].booking].lat # 0

(* The assigned bookings of a city, date and time-window, with or without  *)
(* coordinates, newest first.                                              *)
SlotBookings(city, date, slot) ==
  SortedSeqDesc({b \in 1..Len(bookings) : /\ bookings[b].city = city
                                          /\ bookings[b].date = date
                                          /\ bookings[b].slot = slot
                                          /\ bookings[b].status = "assigned"})

(* A time-window group with a technician whose slot is booked and with     *)
(* bookings of which none has coordinates.                                 *)
GroupWithoutCoordinates(city, date, slot) ==
  /\ Len(group_technicians(DB, city, slot, date)) > 0
  /\ Len(SlotBookings(city, date, slot)) > 0
  /\ \A b \in SeqRange(SlotBookings(city, date, slot)) : bookings[b].lat = NoPos

(* The database without the bookings and booked slots of a time-window. *)
WithoutGroup(city, date, slot) ==
  [DB EXCEPT
     !.bookings = [b \in 1..Len(bookings) |->
        IF b \in SeqRange(SlotBookings(city, date, slot))
        THEN [bookings[b] EXCEPT !.status = "pending", !.assigned_technician = NoTech]
        ELSE bookings[b]],
     !.slots = [k \in DOMAIN slots |->
        IF k[2] = date /\ k[3] = slot /\ technicians[k[1]].city = city
        THEN FALSE ELSE slots[k]]]

(* C19: a time-window group that has a technician with a booked slot but   *)
(* no booking with coordinates yields no matching, puts no entry in the    *)
(* change list, and leaves groups_optimized what it is without the group.  *)
C19_GroupWithoutCoordinatesIsSkipped ==
  \A city \in Cities, date \in OptDates, slot \in SeqRange(SLOT_CHOICES) :
    GroupWithoutCoordinates(city, date, slot) =>
      LET r == optimize_slot_group(DB, city, slot, SlotBookings(city, date, slot), date)
          p == preview_optimization(DB, city, date)
          q == preview_optimization(WithoutGroup(city, date, slot), city, date)
      IN  /\ ~r.has_result /\ r.optimized = <<>>
          /\ \A i \in 1..Len(p.changes) : p.changes[i].slot # slot
          /\ p.changes = q.changes
          /\ p.groups_optimized = q.groups_optimized

(* A Preview of a day that has such a group next to a group with a         *)
(* matched booking.                                                        *)
C19_Witness ==
  /\ last.op = "preview"
  /\ GroupWithoutCoordinates("Delhi", 15, "09_11")
  /\ Len(preview_optimization(DB, "Delhi", 15).changes) > 0

(* C20: every dispatch and every Apply that has started returns: a         *)
(* request in flight is eventually not in flight any more.                 *)
C20_EveryRequestReturns ==
  \A p \in 1..MaxInflight : (inflight[p].kind # "idle") ~> (inflight[p] = Idle)

(* Two dispatch requests in flight that chose the same slot of the same    *)
(* technician.                                                             *)
C20_Witness ==
  \E p, q \in DOMAIN inflight :
    /\ p # q
    /\ inflight[p].kind = "book" /\ inflight[q].kind = "book"
    /\ inflight[p].sel.tech = inflight[q].sel.tech
    /\ inflight[p].sel.slot = inflight[q].sel.slot

(* C21: in every state reached by dispatch and apply calls, the preview of *)
(* a city and date has exactly one change record and exactly one          *)
(* after-state assignment for every assigned booking of the city and date  *)
(* that has coordinates and a technician.                                  *)
C21_PreviewCoversEveryBooking ==
  \A city \in Cities, date \in OptDates :
    LET p == preview_optimization(DB, city, date)
    IN  \A b \in SeqRange(assigned_bookings(DB, city, date)) :
          /\ Cardinality({i \in 1..Len(p.changes) : p.changes[i].booking_id = b}) = 1
          /\ Cardinality({i \in 1..Len(p.after.assignments) :
                            p.after.assignments[i].booking_id = b}) = 1

(* C22: the triples the optimizer materializes for a group pair each       *)
(* technician and each booking at most once; every matched technician      *)
(* holds a booked slot of the city, date and time-window and has a         *)
(* position; every matched booking is a booking of the group with          *)
(* coordinates, so no padding row or column is materialized.               *)
C22_MatchingOneToOneOverReal ==
  \A city \in Cities, date \in OptDates :
    LET rs == group_results(DB, city, date)
    IN  \A k \in 1..Len(rs) :
          LET o == rs[k].optimized
          IN  /\ \A i, j \in 1..Len(o) :
                    i # j => (o[i].tech # o[j].tech /\ o[i].booking # o[j].booking)
              /\ \A i \in 1..Len(o) :
                    /\ o[i].tech \in Tech
                    /\ technicians[o[i].tech].city = city
                    /\ slots[<<o[i].tech, date, rs[k].slot>>]
                    /\ technicians[o[i].tech].current_lat # NoPos
                    /\ o[i].booking \in SeqRange(assigned_bookings(DB, city, date))
                    /\ bookings[o[i].booking].slot = rs[k].slot
                    /\ bookings[o[i].booking].lat # NoPos

(* A Preview of a group whose matrix was padded: it has more technicians   *)
(* with a booked slot than materialized triples, and at least one triple.  *)
C22_Witness ==
  /\ last.op = "preview"
  /\ \E k \in 1..Len(group_results(DB, "Delhi", 15)) :
        LET r == group_results(DB, "Delhi", 15)[k]
        IN  /\ Len(r.optimized) >= 1
            /\ Len(group_technicians(DB, "Delhi", r.slot, 15)) > Len(r.optimized)

(* The one-to-one pairings of n technicians of T with n bookings of B. *)
Pairings(T, B, n) ==
  UNION {{f \in [S -> B] : \A x, y \in S : x # y => f[x] # f[y]} :
           S \in {S \in SUBSET T : Cardinality(S) = n}}

PairingKm(f) ==
  SumSeq([i \in 1..Len(SortedSeq(DOMAIN f)) |->
            Abs(technicians[SortedSeq(DOMAIN f)[i]].current_lat
                - bookings[f[SortedSeq(DOMAIN f)[i]]].lat)])

(* C23: when every technician of a group has a position, the new total     *)
(* distance of the group is the least sum of point distances over all      *)
(* one-to-one pairings of min(#technicians, #bookings) pairs.              *)
C23_NewTotalIsMinimum ==
  \A city \in Cities, date \in OptDates :
    LET rs == group_results(DB, city, date)
    IN  \A k \in 1..Len(rs) :
          LET T == SeqRange(group_technicians(DB, city, rs[k].slot, date))
              B == {b \in SeqRange(assigned_bookings(DB, city, date)) :
                      bookings[b].slot = rs[k].slot}
              n == IF Cardinality(T) <= Cardinality(B) THEN Cardinality(T)
                   ELSE Cardinality(B)
          IN  (rs[k].has_result /\ \A t \in T : technicians[t].current_lat # NoPos)
              => /\ \E f \in Pairings(T, B, n) : PairingKm(f) = rs[k].new_distance
                 /\ \A f \in Pairings(T, B, n) : rs[k].new_distance <= PairingKm(f)

(* A Preview of a group of two technicians with positions and two          *)
(* bookings whose current pairing is longer than the other pairing.        *)
C23_Witness ==
  /\ last.op = "preview"
  /\ Len(bookings) = 2
  /\ bookings[1].slot = bookings[2].slot
  /\ bookings[1].lat # NoPos /\ bookings[2].lat # NoPos
  /\ bookings[1].assigned_technician = 2 /\ bookings[2].assigned_technician = 1
  /\ technicians[1].current_lat # NoPos /\ technicians[2].current_lat # NoPos
  /\ Abs(technicians[2].current_lat - bookings[1].lat)
       + Abs(technicians[1].current_lat - bookings[2].lat)
     > Abs(technicians[1].current_lat - bookings[1].lat)
       + Abs(technicians[2].current_lat - bookings[2].lat)

(* C24: a group is reported improved exactly when its old total minus its  *)
(* new total is at least 0.01 km, groups_optimized is the number of        *)
(* groups reported improved, and a group without improvement is reported   *)
(* with improved = false.                                                  *)
C24_ImprovedByEpsilon ==
  \A city \in Cities, date \in OptDates :
    LET rs == group_results(DB, city, date)
        p == preview_optimization(DB, city, date)
    IN  /\ \A k \in 1..Len(rs) :
              rs[k].has_result =>
                /\ rs[k].improved \in BOOLEAN
                /\ rs[k].improvement_km = rs[k].old_distance - rs[k].new_distance
                /\ rs[k].improved <=> (rs[k].old_distance - rs[k].new_distance >= 2)
        /\ p.groups_optimized =
              Cardinality({k \in 1..Len(rs) : rs[k].has_result /\ rs[k].improved})

(* A Preview with a matched group whose distance did not improve. *)
C24_Witness ==
  /\ last.op = "preview"
  /\ \E k \in 1..Len(group_results(DB, "Delhi", 15)) :
        /\ group_results(DB, "Delhi", 15)[k].has_result
        /\ group_results(DB, "Delhi", 15)[k].improvement_km \in {0, 1}
        /\ ~group_results(DB, "Delhi", 15)[k].improved

(* C25: the changed flag of a change record is true exactly when the       *)
(* matched technician is another row than the booking's current            *)
(* technician, whatever their names.                                       *)
C25_ChangedByIdentifier ==
  \A city \in Cities, date \in OptDates :
    LET es == optimized_entries(group_results(DB, city, date))
        p == preview_optimization(DB, city, date)
    IN  /\ Len(p.changes) = Len(es)
        /\ \A i \in 1..Len(es) :
              /\ p.changes[i].booking_id = es[i].booking
              /\ p.changes[i].changed <=>
                    (es[i].tech # bookings[es[i].booking].assigned_technician)

(* A Preview with a record whose old and new technician have the same      *)
(* name and that has changed = true.                                       *)
C25_Witness ==
  /\ last.op = "preview"
  /\ \E i \in 1..Len(preview_optimization(DB, "Delhi", 15).changes) :
        /\ preview_optimization(DB, "Delhi", 15).changes[i].changed
        /\ preview_optimization(DB, "Delhi", 15).changes[i].old_technician
             = preview_optimization(DB, "Delhi", 15).changes[i].new_technician

(* The bookings the after state of a preview gives technician t, in the    *)
(* fixed window order.                                                     *)
VisitsInWindowOrder(es, t) ==
  LET of_slot(k) == SelectSeq(es, LAMBDA e : e.tech = t /\ e.slot = SLOT_ORDER[k])
      picked == Concat([k \in 1..Len(SLOT_ORDER) |-> of_slot(k)])
  IN  [i \in 1..Len(picked) |-> picked[i].booking]

(* The sum of the hops from a start position through the bookings. *)
HopsKm(start, bs) ==
  SumSeq([i \in 1..Len(bs) |->
            Abs(bookings[bs[i]].lat
                - (IF i = 1 THEN start ELSE bookings[bs[i - 1]].lat))])

(* C26: in the after state of a preview, the route distance reported for   *)
(* a technician, the only one of that name, is 0 when the technician has   *)
(* no position and otherwise the sum of the hops from the technician's     *)
(* position through the technician's bookings in window order.             *)
C26_RouteDistanceChainsWindows ==
  \A city \in Cities, date \in OptDates :
    LET es == optimized_entries(group_results(DB, city, date))
        p == preview_optimization(DB, city, date)
    IN  \A t \in Tech :
          (/\ technicians[t].name \in DOMAIN p.after.per_tech_routes
           /\ \A u \in Tech : technicians[u].name = technicians[t].name => u = t)
          => p.after.per_tech_routes[technicians[t].name] =
               IF technicians[t].current_lat = NoPos THEN 0
               ELSE HopsKm(technicians[t].current_lat, VisitsInWindowOrder(es, t))

(* The errors of a dispatch in the order the claim gives them. *)
ErrorOrder ==
  <<"invalid_field", "bad_date", "bad_time_window", "postal_not_found",
    "no_technician_available">>

(* The defects of a request in the current state, as positions of          *)
(* ErrorOrder.                                                             *)
Defects(req) ==
  {k \in 1..Len(ErrorOrder) :
     \/ k = 1 /\ (~req.contact \/ "" \in {req.city, req.pincode, req.date, req.slot})
     \/ k = 2 /\ req.date \notin {"2025-01-15", "2025-01-16"}
     \/ k = 3 /\ req.slot \notin SeqRange(SLOT_CHOICES)
     \/ k = 4 /\ req.pincode \notin {"110001", "110002", "110003", " 110001 "}
     \/ k = 5 /\ ~\E t \in Tech, d \in Dates :
                     /\ d = parse_date(req.date)
                     /\ technicians[t].city = req.city
                     /\ <<t, d, req.slot>> \in DOMAIN slots
                     /\ ~slots[<<t, d, req.slot>>]}

(* C27: a dispatch request without a defect succeeds, and a request with   *)
(* defects gets the error of its earliest defect in the order missing      *)
(* field, date, time-window, postal code, no technician.                   *)
C27_EarliestErrorFirst ==
  \A req \in Requests :
    BookSelect(DB, req).status =
      IF Defects(req) = {} THEN "success"
      ELSE ErrorOrder[CHOOSE k \in Defects(req) : \A j \in Defects(req) : k <= j]

(* A dispatch refused for its time-window code in a database that holds    *)
(* bookings; the requests with that code include one with an unknown       *)
(* postal code too.                                                        *)
C27_Witness ==
  /\ last.op = "book" /\ last.status = "bad_time_window"
  /\ Len(bookings) > 0
  /\ \E req \in Requests : {3, 4} \subseteq Defects(req)

(* C28: the AssignmentRun and the AssignmentChange rows an Apply commits    *)
(* are those of a preview of the state its transaction writes to, also     *)
(* when a dispatch committed after the Apply computed its own preview.     *)
C28_ApplyUsesCurrentPreview ==
  [][(IsStep("apply", "success") /\ Len(runs') = Len(runs) + 1) =>
       LET p == preview_optimization(DB, last'.city, last'.date)
       IN  /\ runs'[Len(runs')] = AssignmentRunRow(p, last'.city, last'.date)
           /\ changes' = changes \o
                 [i \in 1..Len(p.changes) |->
                    AssignmentChangeRow(Len(runs'), p.changes[i])]]_vars

(* C29: a dispatch whose transaction raises returns an internal error and  *)
(* leaves every slot flag, the booking table and every technician's        *)
(* position as they were before the call.                                  *)
C29_FailedDispatchPersistsNothing ==
  [][IsStep("book", "internal_error") =>
       /\ slots' = slots
       /\ bookings' = bookings
       /\ \A t \in Tech : technicians'[t].current_lat = technicians[t].current_lat]_vars

(* An internal error returned while a free slot stood open to be chosen    *)
(* and the database already held a committed booking.                      *)
C29_Witness ==
  /\ last.op = "book" /\ last.status = "internal_error"
  /\ Len(bookings) > 0
  /\ \E r \in OpsValidRequests : BookSelect(DB, r).status = "success"

(* C30: in every state reached by sequential dispatch and apply calls, no  *)
(* technician is the assigned technician of two assigned bookings that     *)
(* have the same date and the same time-window.                            *)
C30_NoTechnicianTwiceInWindow ==
  \A a, b \in 1..Len(bookings) :
    ( /\ a # b
      /\ bookings[a].status = "assigned" /\ bookings[b].status = "assigned"
      /\ bookings[a].date = bookings[b].date
      /\ bookings[a].slot = bookings[b].slot )
    => bookings[a].assigned_technician # bookings[b].assigned_technician

(* C31: a successful Apply for a city and date changes nothing of a        *)
(* booking but the assigned technician, and that only of bookings of the   *)
(* city and date; it changes the booked flag only of slots of the date     *)
(* that belong to technicians of the city.                                 *)
C31_ApplyFrame ==
  [][IsStep("apply", "success") =>
       /\ Len(bookings') = Len(bookings)
       /\ \A b \in 1..Len(bookings) :
            /\ bookings'[b] =
                 [bookings[b] EXCEPT !.assigned_technician =
                                        bookings'[b].assigned_technician]
            /\ bookings'[b].assigned_technician # bookings[b].assigned_technician
                 => /\ bookings[b].city = last'.city
                    /\ bookings[b].date = last'.date
       /\ DOMAIN slots' = DOMAIN slots
       /\ \A k \in DOMAIN slots :
            slots'[k] # slots[k]
              => /\ k[2] = last'.date
                 /\ technicians[k[1]].city = last'.city]_vars

(* C32: in the state a successful Apply leaves, a Preview of the same city *)
(* and date reports a before total equal to the after_total_km of the      *)
(* AssignmentRun the Apply committed.                                      *)
C32_ApplyDeliversPreview ==
  [][(IsStep("apply", "success") /\ Len(runs') = Len(runs) + 1) =>
       preview_optimization(DB', last'.city, last'.date).before.total_km
         = runs'[Len(runs')].after_total_km]_vars

(* C33: a call of generate_slots_for_date leaves every active technician  *)
(* with a slot of each standard code on the date, counts created + skipped *)
(* = 5 * (number of active technicians), keeps every slot that existed     *)
(* with its booked flag, and creates nothing when it directly follows a    *)
(* call for the same date.                                                 *)
C33_GenerateSlotsIdempotent ==
  [][last'.op = "generate" =>
       LET act == {t \in Tech : technicians[t].is_active}
       IN  /\ \A t \in act : \A c \in SeqRange(STANDARD_SLOTS) :
                <<t, last'.date, c>> \in DOMAIN slots'
           /\ last'.created + last'.skipped = 5 * Cardinality(act)
           /\ Cardinality(DOMAIN slots') =
                Cardinality(DOMAIN slots) + last'.created
           /\ \A k \in DOMAIN slots :
                k \in DOMAIN slots' /\ slots'[k] = slots[k]
           /\ (last.op = "generate" /\ last.date = last'.date)
                => (last'.created = 0 /\ slots' = slots)]_vars

(* A second call for a date on which a booked slot stands: nothing was     *)
(* created, rows were skipped, and the booked flag is still set.           *)
C33_Witness ==
  /\ last.op = "generate"
  /\ last.created = 0 /\ last.skipped > 0
  /\ \E k \in DOMAIN slots : k[2] = last.date /\ slots[k]

====
